---------------------------- MODULE Spec2Model ----------------------------
(***************************************************************************)
(* Simulation core of fighting_game.py: the two Player objects, the       *)
(* collision resolver and the round/match controller of main().           *)
(*                                                                         *)
(* Positions and velocities are Python floats in the source.  They are    *)
(* kept here in fixed point, Unit steps per pixel, and a product with     *)
(* 0.8 or 0.9 is rounded to the nearest step, as a float product is       *)
(* rounded to the nearest double.  int() of the source (the arguments of  *)
(* pygame.Rect) is truncation toward zero.                                *)
(*                                                                         *)
(* One iteration of the `while True` loop of main() is five steps, taken  *)
(* in the order of the code and tracked by pc:                            *)
(*   events  -> timer -> update -> collide -> death -> events ...         *)
(* When the round is not active the body of `if round_active:` is skipped *)
(* and the iteration is the events step alone.                            *)
(***************************************************************************)
EXTENDS Integers, FiniteSets, Sequences, TLC

\* ---------- CONFIG (fighting_game.py lines 8-25) ----------
WIDTH == 960
HEIGHT == 540
GROUND_Y == HEIGHT - 80
PLAYER_WIDTH == 48
PLAYER_HEIGHT == 72
WALK_SPEED == 5
JUMP_VEL == -16
ATTACK_RANGE == 60
ATTACK_DURATION == 14
HIT_STUN == 20
INVULN_AFTER_HIT == 30
KNOCKBACK == 10
MAX_HEALTH == 100
ROUND_TIME == 60
ROUNDS_TO_WIN == 2

\* fixed-point steps per pixel
Unit == 10 ^ 6
\* GRAVITY = 0.9 pixels per frame per frame
GRAVITY == (9 * Unit) \div 10
\* the threshold of `now - last_time >= 1000`, in milliseconds
SECOND_MS == 1000
\* base damage, damage per combo step, combo window and upward knockback
BASE_DAMAGE == 12
COMBO_SCALE == 2
COMBO_WINDOW == 60
KNOCK_UP == -6
ATTACK_HOP == 2

\* ---------- bounds of the model ----------
\* SPACE is taken only while the two scores together are below MaxRounds
MaxRounds == 4
\* the ghost counters kept per attack activation saturate here
MaxLanded == 2
\* the points played for under LiveSpec
LiveRounds == 1

VARIABLES
    p1, p2,            \* the two Player objects
    round_time_left,   \* seconds left in the round
    round_active,      \* RoundActive / RoundEnded
    round_winner,      \* "None", "Player 1", "Player 2" or "Draw"
    elapsed,           \* now - last_time in ms, saturated at SECOND_MS
    keys,              \* pygame.key.get_pressed(): the buttons held this frame
    frame_ms,          \* what clock.tick(FPS) returns in this round
    pc,                \* the step of the loop iteration that runs next
    landed,            \* ghost: hits accepted from each fighter's current attack
    overlap_ticks,     \* ghost: frames in which that attack's hitbox met the opponent
    rounds_at_start,   \* ghost: <<p1.rounds, p2.rounds>> when the round began
    round_ms,          \* ghost: ms of wall clock since the round became active or
                       \* was last counted down, saturated at SECOND_MS
    since_hit          \* ghost: updates of each fighter since the last hit it took
                       \* in this round, saturated at INVULN_AFTER_HIT

vars == <<p1, p2, round_time_left, round_active, round_winner, elapsed, keys,
          frame_ms, pc, landed, overlap_ticks, rounds_at_start, round_ms,
          since_hit>>

\* ---------- Utility ----------
clamp(x, a, b) == IF (IF b < x THEN b ELSE x) > a THEN (IF b < x THEN b ELSE x) ELSE a

\* int(): truncation toward zero of a / b, b > 0
Trunc(a, b) == IF a >= 0 THEN a \div b ELSE -((-a) \div b)

\* v * (n / d) on fixed-point v, rounded to the nearest step
Scale(v, n, d) ==
    IF v >= 0 THEN (v * n + d \div 2) \div d ELSE -(((-v) * n + d \div 2) \div d)

Abs(v) == IF v < 0 THEN -v ELSE v

\* ---------- controls ----------
\* (left, right, jump, attack), as in main()
p1_controls == <<"a", "d", "w", "s">>
p2_controls == <<"LEFT", "RIGHT", "UP", "DOWN">>

\* ---------- Player ----------
Player(x, facing) ==
    [x |-> x, y |-> (GROUND_Y - PLAYER_HEIGHT) * Unit, vx |-> 0, vy |-> 0,
     facing |-> facing, on_ground |-> TRUE,
     attack_timer |-> 0, is_attacking |-> FALSE,
     health |-> MAX_HEALTH, hit_stun |-> 0, invuln |-> 0,
     rounds |-> 0, combo |-> 0, combo_timer |-> 0]

\* pygame.Rect(int(self.x), int(self.y), self.width, self.height)
rect(s) == [x |-> Trunc(s.x, Unit), y |-> Trunc(s.y, Unit),
            w |-> PLAYER_WIDTH, h |-> PLAYER_HEIGHT]

center_x(s) == s.x + (PLAYER_WIDTH * Unit) \div 2

\* h = height * 0.6 = 43.2, hy = y + (height - h) / 2 = y + 14.4
melee_hitbox(s) ==
    IF ~s.is_attacking
    THEN [x |-> 0, y |-> 0, w |-> 0, h |-> 0]
    ELSE LET h  == (PLAYER_HEIGHT * Unit * 6) \div 10
             hx == IF s.facing = 1 THEN s.x + PLAYER_WIDTH * Unit
                                   ELSE s.x - ATTACK_RANGE * Unit
             hy == s.y + (PLAYER_HEIGHT * Unit - h) \div 2
         IN  [x |-> Trunc(hx, Unit), y |-> Trunc(hy, Unit),
              w |-> ATTACK_RANGE, h |-> Trunc(h, Unit)]

\* pygame.Rect.colliderect: overlap of positive area, no hit on an empty rect
colliderect(a, b) ==
    /\ a.w > 0 /\ a.h > 0 /\ b.w > 0 /\ b.h > 0
    /\ a.x < b.x + b.w /\ b.x < a.x + a.w
    /\ a.y < b.y + b.h /\ b.y < a.y + a.h

apply_gravity(s) ==
    LET vy1 == s.vy + GRAVITY
        y1  == s.y + vy1
    IN  IF y1 >= (GROUND_Y - PLAYER_HEIGHT) * Unit
        THEN [s EXCEPT !.y = (GROUND_Y - PLAYER_HEIGHT) * Unit, !.vy = 0,
                       !.on_ground = TRUE]
        ELSE [s EXCEPT !.y = y1, !.vy = vy1, !.on_ground = FALSE]

\* start_attack without the `not self.is_attacking` test of line 111
start_attack_refreshes(s) ==
    IF s.hit_stun <= 0
    THEN [s EXCEPT !.is_attacking = TRUE, !.attack_timer = ATTACK_DURATION,
                   !.vx = @ + ATTACK_HOP * Unit * s.facing]
    ELSE s

start_attack(s) ==
    IF ~s.is_attacking /\ s.hit_stun <= 0
    THEN [s EXCEPT !.is_attacking = TRUE, !.attack_timer = ATTACK_DURATION,
                   !.vx = @ + ATTACK_HOP * Unit * s.facing]
    ELSE s

\* the countdowns without lines 132-133: combo survives the end of its window
tick_timers_keeps_combo(s) ==
    LET at == IF s.attack_timer > 0 THEN s.attack_timer - 1 ELSE s.attack_timer
        ia == IF s.attack_timer > 0 /\ at = 0 THEN FALSE ELSE s.is_attacking
    IN  [s EXCEPT !.attack_timer = at, !.is_attacking = ia,
                  !.hit_stun = IF @ > 0 THEN @ - 1 ELSE @,
                  !.invuln = IF @ > 0 THEN @ - 1 ELSE @,
                  !.combo_timer = IF @ > 0 THEN @ - 1 ELSE @]

\* update, lines 118-133: the four countdowns
tick_timers(s) ==
    LET at == IF s.attack_timer > 0 THEN s.attack_timer - 1 ELSE s.attack_timer
        ia == IF s.attack_timer > 0 /\ at = 0 THEN FALSE ELSE s.is_attacking
        ct == IF s.combo_timer > 0 THEN s.combo_timer - 1 ELSE s.combo_timer
    IN  [s EXCEPT !.attack_timer = at, !.is_attacking = ia,
                  !.hit_stun = IF @ > 0 THEN @ - 1 ELSE @,
                  !.invuln = IF @ > 0 THEN @ - 1 ELSE @,
                  !.combo_timer = ct,
                  !.combo = IF s.combo_timer > 0 /\ ct = 0 THEN 0 ELSE @]

\* update, lines 136-142: movement disabled during hit stun
stunned_move(s) ==
    LET g  == apply_gravity(s)
        vx == Scale(g.vx, 9, 10)
    IN  [g EXCEPT !.vx = vx,
                  !.x = clamp(g.x + vx, 0, (WIDTH - PLAYER_WIDTH) * Unit)]

\* update, lines 145-183: input movement, jump, attack, gravity, facing
input_move(s, pressed, controls, opponent) ==
    LET left   == controls[1]
        right  == controls[2]
        jump   == controls[3]
        attack == controls[4]
        fr  == Scale(s.vx, 8, 10)
        s1  == IF left \in pressed
               THEN [s EXCEPT !.vx = -WALK_SPEED * Unit, !.facing = -1]
               ELSE IF right \in pressed
               THEN [s EXCEPT !.vx = WALK_SPEED * Unit, !.facing = 1]
               ELSE [s EXCEPT !.vx = IF Abs(fr) < (2 * Unit) \div 10 THEN 0 ELSE fr]
        s2  == IF jump \in pressed /\ s1.on_ground
               THEN [s1 EXCEPT !.vy = JUMP_VEL * Unit, !.on_ground = FALSE]
               ELSE s1
        s3  == IF attack \in pressed THEN start_attack(s2) ELSE s2
        s4  == [s3 EXCEPT !.x = clamp(s3.x + s3.vx, 0, (WIDTH - PLAYER_WIDTH) * Unit)]
        s5  == apply_gravity(s4)
    IN  [s5 EXCEPT !.facing = IF center_x(opponent) > center_x(s5) THEN 1 ELSE -1]

\* update without the early return of lines 135-142
update_reads_input_in_stun(s, pressed, controls, opponent) ==
    input_move(tick_timers(s), pressed, controls, opponent)

update(s, pressed, controls, opponent) ==
    LET t == tick_timers(s)
    IN  IF t.hit_stun > 0 THEN stunned_move(t)
                          ELSE input_move(t, pressed, controls, opponent)

\* receive_hit without the invulnerability test of line 186
receive_hit_no_invuln(s, damage, direction) ==
    [ok |-> TRUE,
     s  |-> [s EXCEPT !.health = @ - damage, !.hit_stun = HIT_STUN,
                      !.invuln = INVULN_AFTER_HIT,
                      !.vx = direction * KNOCKBACK * Unit,
                      !.vy = KNOCK_UP * Unit,
                      !.combo = @ + 1, !.combo_timer = COMBO_WINDOW]]

\* receive_hit with line 190 giving HIT_STUN frames of invulnerability
receive_hit_short_invuln(s, damage, direction) ==
    IF s.invuln > 0
    THEN [ok |-> FALSE, s |-> s]
    ELSE [ok |-> TRUE,
          s  |-> [s EXCEPT !.health = @ - damage, !.hit_stun = HIT_STUN,
                           !.invuln = HIT_STUN,
                           !.vx = direction * KNOCKBACK * Unit,
                           !.vy = KNOCK_UP * Unit,
                           !.combo = @ + 1, !.combo_timer = COMBO_WINDOW]]

\* receive_hit with the sign of line 188 wrong: health += damage
receive_hit_heals(s, damage, direction) ==
    IF s.invuln > 0
    THEN [ok |-> FALSE, s |-> s]
    ELSE [ok |-> TRUE,
          s  |-> [s EXCEPT !.health = @ + damage, !.hit_stun = HIT_STUN,
                           !.invuln = INVULN_AFTER_HIT,
                           !.vx = direction * KNOCKBACK * Unit,
                           !.vy = KNOCK_UP * Unit,
                           !.combo = @ + 1, !.combo_timer = COMBO_WINDOW]]

\* receive_hit: the fighter after the call and the value returned
receive_hit(s, damage, direction) ==
    IF s.invuln > 0
    THEN [ok |-> FALSE, s |-> s]
    ELSE [ok |-> TRUE,
          s  |-> [s EXCEPT !.health = @ - damage, !.hit_stun = HIT_STUN,
                           !.invuln = INVULN_AFTER_HIT,
                           !.vx = direction * KNOCKBACK * Unit,
                           !.vy = KNOCK_UP * Unit,
                           !.combo = @ + 1, !.combo_timer = COMBO_WINDOW]]

\* ---------- collision resolver, main() lines 326-344 ----------
\* start_attack took effect in the update that produced s: only start_attack
\* sets attack_timer to ATTACK_DURATION
started(s) == s.attack_timer = ATTACK_DURATION

\* the attack of att reaches def (lines 328-330, 338-340)
reaches(att, def) == att.is_attacking /\ colliderect(melee_hitbox(att), rect(def))

\* a resolver that applies the damage in every frame of overlap: it neither
\* asks receive_hit nor turns the attack off
strike_every_frame(att, def) ==
    IF reaches(att, def)
    THEN [att |-> att,
          def |-> [def EXCEPT !.health = @ - (BASE_DAMAGE + att.combo * COMBO_SCALE)],
          hit |-> TRUE]
    ELSE [att |-> att, def |-> def, hit |-> FALSE]

\* a resolver without lines 336 and 344: an accepted hit clears is_attacking
\* and leaves attack_timer running
strike_keeps_timer(att, def) ==
    IF reaches(att, def)
    THEN LET r == receive_hit(def, BASE_DAMAGE + att.combo * COMBO_SCALE, att.facing)
         IN  IF r.ok
             THEN [att |-> [att EXCEPT !.is_attacking = FALSE],
                   def |-> r.s, hit |-> TRUE]
             ELSE [att |-> att, def |-> r.s, hit |-> FALSE]
    ELSE [att |-> att, def |-> def, hit |-> FALSE]

\* one direction of it: att's attack against def (lines 328-336, 338-344)
strike(att, def) ==
    IF reaches(att, def)
    THEN LET r == receive_hit(def, BASE_DAMAGE + att.combo * COMBO_SCALE, att.facing)
         IN  IF r.ok
             THEN [att |-> [att EXCEPT !.is_attacking = FALSE, !.attack_timer = 0],
                   def |-> r.s, hit |-> TRUE]
             ELSE [att |-> att, def |-> r.s, hit |-> FALSE]
    ELSE [att |-> att, def |-> def, hit |-> FALSE]

\* P1 attack hitting P2, then P2 attack hitting P1
resolve(a, b) ==
    LET first  == strike(a, b)
        second == strike(first.def, first.att)
    IN  [p1 |-> second.def, p2 |-> second.att,
         hit1 |-> first.hit, hit2 |-> second.hit]

\* ---------- round controller ----------
\* line 310 with < for <=
expired_below_zero(time_left) == time_left < 0

\* line 310: the round is over when round_time_left <= 0
expired(time_left) == time_left <= 0

\* decide winner by health with >= for > in line 313: a tie goes to Player 1
decide_by_health_ties(a, b) ==
    IF a.health >= b.health
    THEN [p1 |-> [a EXCEPT !.rounds = @ + 1], p2 |-> b, winner |-> "Player 1"]
    ELSE [p1 |-> a, p2 |-> [b EXCEPT !.rounds = @ + 1], winner |-> "Player 2"]

\* lines 311-320: decide winner by health when the timer runs out
decide_by_health(a, b) ==
    IF a.health > b.health
    THEN [p1 |-> [a EXCEPT !.rounds = @ + 1], p2 |-> b, winner |-> "Player 1"]
    ELSE IF b.health > a.health
    THEN [p1 |-> a, p2 |-> [b EXCEPT !.rounds = @ + 1], winner |-> "Player 2"]
    ELSE [p1 |-> a, p2 |-> b, winner |-> "Draw"]

\* knockout attribution with the single knockouts tested before the double one
decide_knockout_single_first(a, b) ==
    IF a.health <= 0
    THEN [p1 |-> a, p2 |-> [b EXCEPT !.rounds = @ + 1], winner |-> "Player 2"]
    ELSE IF b.health <= 0
    THEN [p1 |-> [a EXCEPT !.rounds = @ + 1], p2 |-> b, winner |-> "Player 1"]
    ELSE [p1 |-> a, p2 |-> b, winner |-> "Draw"]

\* lines 349-356: knockout attribution, entered when a health is <= 0
decide_knockout(a, b) ==
    IF a.health <= 0 /\ b.health <= 0
    THEN [p1 |-> a, p2 |-> b, winner |-> "Draw"]
    ELSE IF a.health <= 0
    THEN [p1 |-> a, p2 |-> [b EXCEPT !.rounds = @ + 1], winner |-> "Player 2"]
    ELSE [p1 |-> [a EXCEPT !.rounds = @ + 1], p2 |-> b, winner |-> "Player 1"]

\* round_reset without lines 256-257: hit_stun and invuln survive the reset
reset_fighter_keeps_stun(s, x) ==
    [s EXCEPT !.x = x, !.y = (GROUND_Y - PLAYER_HEIGHT) * Unit, !.vx = 0, !.vy = 0,
              !.health = MAX_HEALTH, !.is_attacking = FALSE, !.attack_timer = 0,
              !.combo = 0, !.combo_timer = 0]

\* one fighter's part of round_reset; x is its spawn point
reset_fighter(s, x) ==
    [s EXCEPT !.x = x, !.y = (GROUND_Y - PLAYER_HEIGHT) * Unit, !.vx = 0, !.vy = 0,
              !.health = MAX_HEALTH, !.is_attacking = FALSE, !.attack_timer = 0,
              !.hit_stun = 0, !.invuln = 0, !.combo = 0, !.combo_timer = 0]

\* round_reset: WIDTH * 0.25 - width / 2 and WIDTH * 0.75 - width / 2
round_reset(a, b) ==
    [p1 |-> reset_fighter(a, (WIDTH \div 4) * Unit - (PLAYER_WIDTH * Unit) \div 2),
     p2 |-> reset_fighter(b, ((3 * WIDTH) \div 4) * Unit - (PLAYER_WIDTH * Unit) \div 2)]

\* the SPACE branch without the `not round_active` test of line 290
key_space_any_time(a, b, active, time_left, winner) ==
    [p1 |-> round_reset(a, b).p1, p2 |-> round_reset(a, b).p2,
     round_active |-> TRUE, round_time_left |-> ROUND_TIME,
     round_winner |-> "None"]

\* lines 290-296: what a KEYDOWN of SPACE does to the fighters and the round
key_space(a, b, active, time_left, winner) ==
    IF ~active
    THEN [p1 |-> round_reset(a, b).p1, p2 |-> round_reset(a, b).p2,
          round_active |-> TRUE, round_time_left |-> ROUND_TIME,
          round_winner |-> "None"]
    ELSE [p1 |-> a, p2 |-> b, round_active |-> active,
          round_time_left |-> time_left, round_winner |-> winner]

\* lines 416-418: the match overlay, drawn while the round is not active
match_won == p1.rounds >= ROUNDS_TO_WIN \/ p2.rounds >= ROUNDS_TO_WIN
champ == IF p1.rounds > p2.rounds THEN "Player 1" ELSE "Player 2"

\* ---------- the players and the machine: the inputs of the model ----------
\* The buttons held are chosen when a round begins and held through it, but a
\* fighter that has just taken a hit may start to hold its attack button.
Scripts ==
    { {},                            \* nobody moves
      {"d", "s", "LEFT", "DOWN"},    \* both walk in and attack
      {"d", "w", "s"},               \* P1 walks in, jumping and attacking
      {"LEFT", "DOWN"},              \* P2 walks in and attacks
      {"s", "LEFT"},                 \* P2 walks into P1's attacks
      {"d", "DOWN"} }                \* P1 walks into P2's attacks


\* What clock.tick(FPS) returns, in ms: a slow machine (one counted second
\* takes 7 frames) or a stalling one (every frame counts a second).  It is
\* chosen when a round begins.
FrameMs == {150, 1000}

\* Until the first point of the match is scored the frame duration may also
\* change within a round, each time a second has been counted.
Unsteady == p1.rounds + p2.rounds = 0

\* Once a point has been scored, a fighter hit in the frame before this one
\* (hit_stun is HIT_STUN only until the next update) may start to hold its
\* attack button.
StrikeBack ==
    IF round_active /\ ~Unsteady
    THEN (IF p1.hit_stun = HIT_STUN THEN {p1_controls[4]} ELSE {})
             \cup (IF p2.hit_stun = HIT_STUN THEN {p2_controls[4]} ELSE {})
    ELSE {}

Min(a, b) == IF a < b THEN a ELSE b

\* ---------- main() ----------
\* lines 267-275
Init ==
    /\ p1 = Player((WIDTH \div 4) * Unit, 1)
    /\ p2 = Player(((3 * WIDTH) \div 4) * Unit, -1)
    /\ round_time_left = ROUND_TIME
    /\ round_active = TRUE
    /\ round_winner = "None"
    /\ elapsed = 0
    /\ keys \in Scripts
    /\ frame_ms \in FrameMs
    /\ pc = "events"
    /\ landed = <<0, 0>>
    /\ overlap_ticks = <<0, 0>>
    /\ rounds_at_start = <<0, 0>>
    /\ round_ms = 0
    /\ since_hit = <<INVULN_AFTER_HIT, INVULN_AFTER_HIT>>

\* lines 281-298 with SPACE in the event queue and the round over:
\* start next round
Continue ==
    /\ pc = "events"
    /\ ~round_active
    /\ p1.rounds + p2.rounds < MaxRounds
    /\ elapsed' = Min(elapsed + frame_ms, SECOND_MS)
    /\ LET r == key_space(p1, p2, round_active, round_time_left, round_winner)
       IN  /\ round_active' = r.round_active
           /\ round_time_left' = r.round_time_left
           /\ round_winner' = r.round_winner
           /\ p1' = r.p1
           /\ p2' = r.p2
    /\ keys' \in Scripts
    /\ frame_ms' \in FrameMs
    /\ landed' = <<0, 0>>
    /\ overlap_ticks' = <<0, 0>>
    /\ rounds_at_start' = <<p1.rounds, p2.rounds>>
    /\ round_ms' = 0
    /\ since_hit' = <<INVULN_AFTER_HIT, INVULN_AFTER_HIT>>
    /\ pc' = "timer"

\* lines 281-298 otherwise: no SPACE, or SPACE while the round is active
NoContinue ==
    /\ pc = "events"
    /\ \E space \in (IF round_active THEN BOOLEAN ELSE {FALSE}) :
           LET r == key_space(p1, p2, round_active, round_time_left, round_winner)
           IN  /\ round_active' = (IF space THEN r.round_active ELSE round_active)
               /\ round_time_left' = (IF space THEN r.round_time_left ELSE round_time_left)
               /\ round_winner' = (IF space THEN r.round_winner ELSE round_winner)
               /\ p1' = (IF space THEN r.p1 ELSE p1)
               /\ p2' = (IF space THEN r.p2 ELSE p2)
    /\ elapsed' = Min(elapsed + frame_ms, SECOND_MS)
    /\ round_ms' = IF round_active THEN Min(round_ms + frame_ms, SECOND_MS) ELSE round_ms
    /\ \E more \in SUBSET StrikeBack : keys' = keys \cup more
    /\ pc' = IF round_active THEN "timer" ELSE "events"
    /\ UNCHANGED <<frame_ms, landed, overlap_ticks, rounds_at_start, since_hit>>

\* lines 305-321: time decrement
TimerCheck ==
    /\ pc = "timer"
    /\ IF elapsed >= SECOND_MS
       THEN /\ round_time_left' = round_time_left - 1
            /\ elapsed' = 0
            /\ round_ms' = 0
            /\ frame_ms' \in IF Unsteady THEN FrameMs ELSE {frame_ms}
            /\ IF expired(round_time_left - 1)
               THEN /\ round_active' = FALSE
                    /\ p1' = decide_by_health(p1, p2).p1
                    /\ p2' = decide_by_health(p1, p2).p2
                    /\ round_winner' = decide_by_health(p1, p2).winner
               ELSE UNCHANGED <<round_active, p1, p2, round_winner>>
       ELSE UNCHANGED <<round_time_left, elapsed, round_ms, frame_ms, round_active,
                        p1, p2, round_winner>>
    /\ pc' = "update"
    /\ UNCHANGED <<keys, landed, overlap_ticks, rounds_at_start, since_hit>>

\* lines 323-324: p1.update(keys, p2) and then p2.update(keys, p1)
UpdatePlayers ==
    /\ pc = "update"
    /\ p1' = update(p1, keys, p1_controls, p2)
    /\ p2' = update(p2, keys, p2_controls, p1')
    /\ landed' = <<IF started(p1') THEN 0 ELSE landed[1],
                   IF started(p2') THEN 0 ELSE landed[2]>>
    /\ overlap_ticks' = <<IF started(p1') THEN 0 ELSE overlap_ticks[1],
                          IF started(p2') THEN 0 ELSE overlap_ticks[2]>>
    /\ pc' = "collide"
    /\ since_hit' = <<Min(since_hit[1] + 1, INVULN_AFTER_HIT),
                      Min(since_hit[2] + 1, INVULN_AFTER_HIT)>>
    /\ UNCHANGED <<round_time_left, round_active, round_winner, elapsed, keys,
                   frame_ms, rounds_at_start, round_ms>>

\* lines 326-344
ResolveCollisions ==
    /\ pc = "collide"
    /\ p1' = resolve(p1, p2).p1
    /\ p2' = resolve(p1, p2).p2
    /\ landed' = <<IF resolve(p1, p2).hit1 THEN Min(landed[1] + 1, MaxLanded) ELSE landed[1],
                   IF resolve(p1, p2).hit2 THEN Min(landed[2] + 1, MaxLanded) ELSE landed[2]>>
    /\ overlap_ticks' =
           <<IF reaches(p1, p2) THEN Min(overlap_ticks[1] + 1, MaxLanded) ELSE overlap_ticks[1],
             IF reaches(p2, p1) THEN Min(overlap_ticks[2] + 1, MaxLanded) ELSE overlap_ticks[2]>>
    /\ pc' = "death"
    /\ since_hit' = <<IF resolve(p1, p2).hit2 THEN 0 ELSE since_hit[1],
                      IF resolve(p1, p2).hit1 THEN 0 ELSE since_hit[2]>>
    /\ UNCHANGED <<round_time_left, round_active, round_winner, elapsed, keys,
                   frame_ms, rounds_at_start, round_ms>>

\* lines 346-357: check death
CheckDeath ==
    /\ pc = "death"
    /\ IF p1.health <= 0 \/ p2.health <= 0
       THEN /\ round_active' = FALSE
            /\ p1' = decide_knockout(p1, p2).p1
            /\ p2' = decide_knockout(p1, p2).p2
            /\ round_winner' = decide_knockout(p1, p2).winner
       ELSE UNCHANGED <<round_active, p1, p2, round_winner>>
    /\ pc' = "events"
    /\ UNCHANGED <<round_time_left, elapsed, keys, frame_ms, landed, overlap_ticks,
                   rounds_at_start, round_ms, since_hit>>

Next ==
    \/ Continue
    \/ NoContinue
    \/ TimerCheck
    \/ UpdatePlayers
    \/ ResolveCollisions
    \/ CheckDeath

Spec == Init /\ [][Next]_vars

\* A match of LiveRounds points on a machine whose frame duration is steady
\* through a round and with players who hold their buttons through it.
LiveEnv ==
    /\ (pc = "events" /\ ~round_active /\ round_active') =>
           p1.rounds + p2.rounds < LiveRounds
    /\ ~(pc = "events" /\ ~round_active /\ round_active') =>
           (keys' = keys /\ frame_ms' = frame_ms)

LiveNext ==
    \/ Continue /\ LiveEnv
    \/ NoContinue /\ LiveEnv
    \/ TimerCheck /\ LiveEnv
    \/ UpdatePlayers
    \/ ResolveCollisions
    \/ CheckDeath

\* The loop never stops taking steps (clock.tick returns, frames keep coming)
\* and every frame takes frame_ms > 0 of wall clock.
LiveSpec == Init /\ [][LiveNext]_vars /\ WF_vars(LiveNext)

\* ---------- properties ----------
\* the step that takes SPACE and runs round_reset
IsReset == pc = "events" /\ ~round_active /\ round_active'

\* the fighter fields receive_hit writes
HitFields(s) == <<s.health, s.hit_stun, s.invuln, s.vx, s.vy, s.combo, s.combo_timer>>

\* C1: an attack activation (from the start_attack that sets is_attacking until
\* is_attacking is next false) has at most one hit accepted by the opponent,
\* however many frames its hitbox overlaps the opponent.
OneHitPerActivation == landed[1] <= 1 /\ landed[2] <= 1

\* C1 witness: P1's attack met P2 in two frames or more, was refused while P2 was
\* invulnerable, and then landed once.
OneHitPerActivationWitness ==
    /\ landed[1] = 1 /\ overlap_ticks[1] >= 2
    /\ ~p1.is_attacking /\ p1.attack_timer = 0

\* C2: when a round is over, its recorded winner has exactly one point more than
\* when the round began and the other fighter has what it had; after a Draw both
\* have what they had.
OnePointPerRound ==
    ~round_active =>
        /\ round_winner = "Player 1" =>
               p1.rounds = rounds_at_start[1] + 1 /\ p2.rounds = rounds_at_start[2]
        /\ round_winner = "Player 2" =>
               p1.rounds = rounds_at_start[1] /\ p2.rounds = rounds_at_start[2] + 1
        /\ round_winner = "Draw" =>
               p1.rounds = rounds_at_start[1] /\ p2.rounds = rounds_at_start[2]

\* C3: when a health is <= 0 after collision resolution, the death check of that
\* frame ends the round; the winner recorded is Draw when both healths are <= 0
\* and otherwise the fighter whose health is > 0.
KnockoutAttribution ==
    [][(pc = "death" /\ (p1.health <= 0 \/ p2.health <= 0)) =>
          /\ ~round_active'
          /\ pc' = "events"
          /\ round_winner' = IF p1.health <= 0 /\ p2.health <= 0 THEN "Draw"
                             ELSE IF p1.health > 0 THEN "Player 1" ELSE "Player 2"]_vars

\* C3 witness: a double knockout was recorded as a Draw.
KnockoutAttributionWitness ==
    /\ pc = "events" /\ ~round_active /\ round_winner = "Draw"
    /\ p1.health <= 0 /\ p2.health <= 0

MatchWinnerStable == [][match_won => champ' = champ]_vars

\* C6: receive_hit on a fighter with invuln > 0 returns false and changes nothing;
\* so a collision step leaves the hit fields of an invulnerable fighter as they
\* were and does not turn off the attack of its opponent.
InvulnImmunity ==
    /\ [](\A s \in {p1, p2} : \A c \in {p1.combo, p2.combo} : \A dir \in {-1, 1} :
            s.invuln > 0 =>
                /\ ~receive_hit(s, BASE_DAMAGE + c * COMBO_SCALE, dir).ok
                /\ receive_hit(s, BASE_DAMAGE + c * COMBO_SCALE, dir).s = s)
    /\ [][pc = "collide" =>
            /\ p2.invuln > 0 =>
                   /\ HitFields(p2') = HitFields(p2)
                   /\ p1'.is_attacking = p1.is_attacking
                   /\ p1'.attack_timer = p1.attack_timer
            /\ p1.invuln > 0 =>
                   /\ HitFields(p1') = HitFields(p1)
                   /\ p2'.is_attacking = p2.is_attacking
                   /\ p2'.attack_timer = p2.attack_timer]_vars

\* C6 witness: the collision step has just refused P1's attack on an invulnerable
\* P2 and left the attack running.
InvulnImmunityWitness ==
    /\ pc = "death" /\ reaches(p1, p2) /\ p2.invuln > 0 /\ p2.invuln < INVULN_AFTER_HIT

\* C7: a health is never above MAX_HEALTH, and no step other than the round
\* reset raises a health.
HealthBound ==
    /\ [](p1.health <= MAX_HEALTH /\ p2.health <= MAX_HEALTH)
    /\ [][~IsReset => (p1'.health <= p1.health /\ p2'.health <= p2.health)]_vars

\* C7 witness: both fighters have lost health in the round that is running.
HealthBoundWitness ==
    round_active /\ p1.health < MAX_HEALTH /\ p2.health < p1.health

\* C8: the Continue step leaves both fighters with full health, no timer
\* running, no attack, no combo and no velocity, and leaves both scores alone.
ResetEffect ==
    [][IsReset =>
          /\ \A s \in {p1', p2'} :
                 /\ s.health = MAX_HEALTH
                 /\ s.attack_timer = 0 /\ s.hit_stun = 0 /\ s.invuln = 0
                 /\ s.combo_timer = 0 /\ s.combo = 0
                 /\ ~s.is_attacking
                 /\ s.vx = 0 /\ s.vy = 0
          /\ p1'.rounds = p1.rounds /\ p2'.rounds = p2.rounds]_vars

\* C8 witness: a round that began by a reset, with a point scored before it and
\* both fighters as the reset leaves them.
ResetEffectWitness ==
    /\ pc = "timer" /\ round_time_left = ROUND_TIME
    /\ rounds_at_start = <<p1.rounds, p2.rounds>> /\ p1.rounds + p2.rounds > 0
    /\ p1.health = MAX_HEALTH /\ p2.health = MAX_HEALTH

\* C9: after the Continue step every fighter field but rounds has the value it
\* had when the fighter was created.
ResetToCreation ==
    [][IsReset =>
          /\ [p1' EXCEPT !.rounds = 0] = Player((WIDTH \div 4) * Unit, 1)
          /\ [p2' EXCEPT !.rounds = 0] = Player(((3 * WIDTH) \div 4) * Unit, -1)]_vars

\* C10: no fighter is attacking while it is hit-stunned.
AttackStunExclusive ==
    \A s \in {p1, p2} : ~(s.is_attacking /\ s.hit_stun > 0)

\* what one update of fighter s did about attacking, s held the attack button
\* `attack` or not, t is the fighter after the update
AttackRule(s, t, held) ==
    /\ (s.hit_stun > 1) =>
           /\ t.attack_timer = (IF s.attack_timer > 0 THEN s.attack_timer - 1 ELSE 0)
           /\ t.is_attacking = (s.is_attacking /\ s.attack_timer # 1)
           /\ t.vx = Scale(s.vx, 9, 10)
    /\ (s.hit_stun <= 1 /\ s.is_attacking /\ s.attack_timer > 1) =>
           /\ t.attack_timer = s.attack_timer - 1
           /\ t.is_attacking
    /\ (s.hit_stun <= 1 /\ (~s.is_attacking \/ s.attack_timer = 1)) =>
           /\ t.is_attacking = held
           /\ t.attack_timer = (IF held THEN ATTACK_DURATION ELSE 0)

\* C11: start_attack on a fighter that is attacking or hit-stunned changes
\* nothing, and otherwise sets is_attacking, attack_timer = ATTACK_DURATION and
\* adds the hop to vx; an update that leaves the fighter stunned starts no
\* attack whatever is held, one that finds the attack running does not refresh
\* it, and one that finds the fighter free and the button held starts it.
StartAttackRejection ==
    /\ [](\A s \in {p1, p2} :
            /\ (s.is_attacking \/ s.hit_stun > 0) => start_attack(s) = s
            /\ (~s.is_attacking /\ s.hit_stun <= 0) =>
                   start_attack(s) =
                       [s EXCEPT !.is_attacking = TRUE,
                                 !.attack_timer = ATTACK_DURATION,
                                 !.vx = s.vx + ATTACK_HOP * s.facing * Unit])
    /\ [][pc = "update" =>
            /\ AttackRule(p1, p1', p1_controls[4] \in keys)
            /\ AttackRule(p2, p2', p2_controls[4] \in keys)]_vars

\* C11 witness: P2 holds its attack button through an update that leaves it
\* stunned, and is not attacking after it.
StartAttackRejectionWitness ==
    /\ pc = "collide" /\ p2_controls[4] \in keys
    /\ p2.hit_stun > 0 /\ ~p2.is_attacking /\ p2.attack_timer = 0

\* what one step of the loop did to the combo of a fighter, s before, t after
ComboRule(s, t) ==
    /\ pc = "update" =>
           /\ t.combo_timer = (IF s.combo_timer > 0 THEN s.combo_timer - 1 ELSE 0)
           /\ t.combo = (IF s.combo_timer = 1 THEN 0 ELSE s.combo)
    /\ pc = "collide" =>
           IF t.health < s.health
           THEN t.combo = s.combo + 1 /\ t.combo_timer = COMBO_WINDOW
           ELSE t.combo = s.combo /\ t.combo_timer = s.combo_timer

\* C12: an update sets combo to 0 exactly when it counts combo_timer down from
\* 1 to 0, an accepted hit adds 1 to combo and sets combo_timer to the full
\* window, and in every reachable state combo > 0 iff combo_timer > 0.
ComboWindow ==
    /\ [](\A s \in {p1, p2} : (s.combo > 0) <=> (s.combo_timer > 0))
    /\ [][ComboRule(p1, p1') /\ ComboRule(p2, p2')]_vars

\* C12 witness: P1 took two hits or more in the running round and its combo
\* window has since run out.
ComboWindowWitness ==
    /\ round_active /\ p1.health <= MAX_HEALTH - 2 * BASE_DAMAGE
    /\ p1.combo = 0 /\ p1.combo_timer = 0

\* C13: round_time_left is counted down only in a timer step of an active
\* round at which 1000 ms or more of wall clock have passed since the round
\* became active or was last counted down; the time spent with the round
\* ended does not count.
WallClockGated ==
    [][round_time_left' < round_time_left =>
          /\ pc = "timer" /\ round_active
          /\ round_time_left' = round_time_left - 1
          /\ round_ms >= SECOND_MS]_vars

\* the timer ran out in this frame and the frame is not over
ExpiredThisFrame == ~round_active /\ pc \in {"update", "collide", "death"}

\* C14: the timer check is the last thing of a frame to touch the fighters:
\* once the timer has ended the round, the rest of that frame changes no fighter
\* field, and in the ended round the recorded winner of a timer expiry has
\* strictly more health than the opponent, Draw being recorded on equal healths.
TimerCheckLast ==
    /\ []((~round_active /\ round_time_left = 0) =>
            /\ round_winner = "Player 1" => p1.health > p2.health
            /\ round_winner = "Player 2" => p2.health > p1.health
            /\ round_winner = "Draw" => p1.health = p2.health)
    /\ [][ExpiredThisFrame => (p1' = p1 /\ p2' = p2)]_vars

\* C15: in every reachable state a fighter is attacking iff its attack_timer is
\* above 0, and attack_timer is within 0..ATTACK_DURATION.
AttackingIffTimer ==
    \A s \in {p1, p2} :
        /\ s.is_attacking <=> (s.attack_timer > 0)
        /\ s.attack_timer >= 0 /\ s.attack_timer <= ATTACK_DURATION

\* C15 witness: the resolver has just accepted P1's hit on P2 and cancelled
\* P1's attack, which had frames left to run.
AttackingIffTimerWitness ==
    /\ pc = "death" /\ p2.hit_stun = HIT_STUN /\ landed[1] = 1
    /\ overlap_ticks[1] = 1 /\ ~p1.is_attacking /\ p1.attack_timer = 0

\* the buttons of a control tuple
Buttons(controls) == {controls[i] : i \in 1..4}

\* the update of s is the same whatever is held, and is the stunned move
StunDeaf(s, controls, opponent) ==
    LET t == update(s, {}, controls, opponent)
    IN  /\ \A pressed \in SUBSET Buttons(controls) :
               update(s, pressed, controls, opponent) = t
        /\ t.facing = s.facing
        /\ t.vx = Scale(s.vx, 9, 10)
        /\ t.is_attacking = (s.is_attacking /\ s.attack_timer # 1)

\* C16: an update of a fighter whose hit_stun is still above 0 after the
\* countdown gives the same fighter for every set of held buttons: no walk
\* velocity, no jump, no attack, facing as before.  Checked where the loop is
\* about to run the updates.
StunIgnoresInput ==
    pc = "update" =>
        /\ p1.hit_stun > 1 => StunDeaf(p1, p1_controls, p2)
        /\ p2.hit_stun > 1 => StunDeaf(p2, p2_controls, p1)

\* C16 witness: P1 holds right and attack through an update that leaves it
\* stunned, and still slides left from the knockback.
StunIgnoresInputWitness ==
    /\ pc = "collide" /\ p1.hit_stun > 0 /\ p1.hit_stun < HIT_STUN
    /\ {p1_controls[2], p1_controls[4]} \subseteq keys
    /\ p1.vx < 0 /\ ~p1.is_attacking

\* the fighters and the round as a step leaves them alone
RoundUntouched ==
    /\ p1' = p1 /\ p2' = p2
    /\ round_active' = round_active
    /\ round_time_left' = round_time_left
    /\ round_winner' = round_winner

\* C17: the event handling of a frame changes neither fighter nor the round
\* while the round is active, SPACE or not; while the round is ended a frame
\* either changes none of them or, on SPACE, sets the round active, restores
\* round_time_left to ROUND_TIME, clears the recorded winner and runs
\* round_reset; and a round only becomes active in that way.
RoundLifecycle ==
    /\ [][(pc = "events" /\ round_active) => RoundUntouched]_vars
    /\ [][(pc = "events" /\ ~round_active) =>
             \/ RoundUntouched
             \/ /\ round_active' /\ round_time_left' = ROUND_TIME
                /\ round_winner' = "None"
                /\ p1' = round_reset(p1, p2).p1
                /\ p2' = round_reset(p1, p2).p2]_vars
    /\ [][(~round_active /\ round_active') => pc = "events"]_vars

\* C17 witness: frames have passed with the round ended by a knockout of P1,
\* and P1 is still as the hit left it.
RoundLifecycleWitness ==
    /\ pc = "events" /\ ~round_active /\ elapsed > round_ms
    /\ p1.health <= 0 /\ p1.hit_stun = HIT_STUN

\* C18: an active round is eventually ended; while the round is active
\* round_time_left is within 1..ROUND_TIME, no step of an active round raises
\* it, and the step that counts it down to 0 ends the round.
RoundEnds ==
    /\ round_active ~> ~round_active
    /\ [](round_active => (round_time_left >= 1 /\ round_time_left <= ROUND_TIME))
    /\ [][(round_active /\ round_active') => round_time_left' <= round_time_left]_vars
    /\ [][round_time_left' = 0 => ~round_active']_vars

\* C18 witness: a round in which nobody was hit has been ended by its timer.
RoundEndsWitness ==
    /\ ~round_active /\ round_time_left = 0 /\ pc = "events"
    /\ p1.health = MAX_HEALTH /\ p2.health = MAX_HEALTH
    /\ round_winner = "Draw"

\* C19: a fighter with hit_stun > 0 has invuln = hit_stun + (INVULN_AFTER_HIT -
\* HIT_STUN); so a collision step takes no health from a stunned fighter, and a
\* fighter that takes a hit has had INVULN_AFTER_HIT updates or more since the
\* hit before it in the round.
StunnedIsInvulnerable ==
    /\ [](\A s \in {p1, p2} :
            s.hit_stun > 0 => s.invuln = s.hit_stun + (INVULN_AFTER_HIT - HIT_STUN))
    /\ [][pc = "collide" =>
            /\ p1.hit_stun > 0 => p1'.health = p1.health
            /\ p2.hit_stun > 0 => p2'.health = p2.health
            /\ p1'.health < p1.health => since_hit[1] >= INVULN_AFTER_HIT
            /\ p2'.health < p2.health => since_hit[2] >= INVULN_AFTER_HIT]_vars

\* C19 witness: P2 has just taken its second hit of the round or a later one,
\* within the combo window of the one before.
StunnedIsInvulnerableWitness ==
    /\ pc = "death" /\ since_hit[2] = 0 /\ p2.hit_stun = HIT_STUN
    /\ p2.combo >= 2 /\ p2.combo_timer = COMBO_WINDOW

\* both attacks reach, both fighters can be hit, and the combos are equal
EvenTrade ==
    /\ pc = "collide"
    /\ reaches(p1, p2) /\ reaches(p2, p1)
    /\ p1.invuln = 0 /\ p2.invuln = 0
    /\ p1.combo = p2.combo

\* C20: in a collision step where both attacks reach, both fighters are
\* vulnerable and both have the same combo c, both hits are accepted and each
\* fighter loses BASE_DAMAGE + COMBO_SCALE * c health.
TradeSymmetry ==
    [][EvenTrade =>
          /\ p1'.hit_stun = HIT_STUN /\ p2'.hit_stun = HIT_STUN
          /\ p1'.health = p1.health - (BASE_DAMAGE + COMBO_SCALE * p1.combo)
          /\ p2'.health = p2.health - (BASE_DAMAGE + COMBO_SCALE * p2.combo)]_vars

=============================================================================
